---------------------------- MODULE Spec2Model ----------------------------
(***************************************************************************)
(* A model of the semv library (semantic versions for Go): the version     *)
(* parser, the formatter, the precedence comparator, the range model and   *)
(* the version list queries.                                               *)
(*                                                                         *)
(* A text is a sequence of one-character strings, so that "1.2" is         *)
(* <<"1", ".", "2">>; the library is ASCII throughout, so a byte position  *)
(* is a character position.  Positions in the model are 1-based; the       *)
(* library's are 0-based, and the conversion is made where a position is   *)
(* reported.                                                               *)
(***************************************************************************)
EXTENDS Integers, Sequences, FiniteSets, TLC

VARIABLES pc, op, args, ret

vars == <<pc, op, args, ret>>

(***************************************************************************)
(* Texts.                                                                  *)
(***************************************************************************)

\* The characters of the model in ASCII order: Go compares strings bytewise.
AsciiOrder ==
    <<" ", "!", "+", "-", ".",
      "0", "1", "2", "3", "4", "5", "6", "7", "8", "9",
      "<", "=", ">", "?",
      "A", "B", "C", "D", "E", "F", "G", "H", "I", "J", "K", "L", "M",
      "N", "O", "P", "Q", "R", "S", "T", "U", "V", "W", "X", "Y", "Z",
      "^",
      "a", "b", "c", "d", "e", "f", "g", "h", "i", "j", "k", "l", "m",
      "n", "o", "p", "q", "r", "s", "t", "u", "v", "w", "x", "y", "z",
      "~">>

CharSet == {AsciiOrder[i] : i \in 1..Len(AsciiOrder)}

OrdTable == [c \in CharSet |-> CHOOSE i \in 1..Len(AsciiOrder) : AsciiOrder[i] = c]

Ord(c) == OrdTable[c]

digits == {"0", "1", "2", "3", "4", "5", "6", "7", "8", "9"}

letters == {c \in CharSet : Ord("A") <= Ord(c) /\ Ord(c) <= Ord("Z")}
           \cup {c \in CharSet : Ord("a") <= Ord(c) /\ Ord(c) <= Ord("z")}

validPreAndMetaChars == digits \cup {".", "-"} \cup letters

DigitVal(c) == Ord(c) - Ord("0")

DigitChar(n) == AsciiOrder[Ord("0") + n]

RECURSIVE AtoiDigits(_)
AtoiDigits(s) ==
    IF s = <<>> THEN 0
    ELSE 10 * AtoiDigits(SubSeq(s, 1, Len(s) - 1)) + DigitVal(s[Len(s)])

\* strconv.Atoi on a buffer that holds digits only: it fails on the empty text.
AtoiOk(s) == s # <<>> /\ \A i \in 1..Len(s) : s[i] \in digits

Atoi(s) == IF AtoiOk(s) THEN AtoiDigits(s) ELSE 0

RECURSIVE Itoa(_)
Itoa(n) == IF n < 10 THEN <<DigitChar(n)>> ELSE Itoa(n \div 10) \o <<DigitChar(n % 10)>>

\* strings.Replace(s, old, new, -1) for a non-empty old.
RECURSIVE Replace(_, _, _)
Replace(s, old, new) ==
    IF Len(s) < Len(old) THEN s
    ELSE IF SubSeq(s, 1, Len(old)) = old
         THEN new \o Replace(SubSeq(s, Len(old) + 1, Len(s)), old, new)
         ELSE <<Head(s)>> \o Replace(Tail(s), old, new)

\* strings.IndexAny(s, digits), 1-based; 0 when no digit occurs.
IndexAnyDigit(s) ==
    IF \E i \in 1..Len(s) : s[i] \in digits
    THEN CHOOSE i \in 1..Len(s) : s[i] \in digits /\ \A j \in 1..(i - 1) : s[j] \notin digits
    ELSE 0

(***************************************************************************)
(* Versions and the format templates.                                      *)
(***************************************************************************)

Major == <<"M">>
MajorMinor == <<"M", ".", "m">>
MajorMinorPatch == <<"M", ".", "m", ".", "p">>
PreTok == <<"-", "?">>
MetaTok == <<"+", "?">>
PreRaw == <<"-", "!">>
MetaRaw == <<"+", "!">>
Complete == MajorMinorPatch \o PreTok \o MetaTok

MkVersion(ma, mi, pa, pre, meta, fmt) ==
    [Major |-> ma, Minor |-> mi, Patch |-> pa, Pre |-> pre, Meta |-> meta,
     DefaultFormat |-> fmt]

ZeroVersion == MkVersion(0, 0, 0, <<>>, <<>>, <<>>)

NewVersion(major, minor, patch, pre, meta) ==
    MkVersion(major, minor, patch, pre, meta, <<>>)

NewMajorMinorPatch(major, minor, patch) ==
    MkVersion(major, minor, patch, <<>>, <<>>, <<>>)

\* A Format that renders every version with the complete template.
FormatComplete(v, format) ==
    Itoa(v.Major) \o <<".">> \o Itoa(v.Minor) \o <<".">> \o Itoa(v.Patch)
        \o (IF v.Pre # <<>> THEN <<"-">> \o v.Pre ELSE <<>>)
        \o (IF v.Meta # <<>> THEN <<"+">> \o v.Meta ELSE <<>>)

\* A Format whose empty template stands for the version's recorded shape.
FormatOwnShape(v, format) ==
    LET f0 == IF format = <<>> THEN v.DefaultFormat ELSE format
        f1 == Replace(f0, <<"M">>, Itoa(v.Major))
        f2 == Replace(f1, <<"m">>, Itoa(v.Minor))
        f3 == Replace(f2, <<"p">>, Itoa(v.Patch))
        f4 == IF v.Pre # <<>> THEN Replace(f3, PreTok, <<"-">> \o v.Pre)
              ELSE Replace(f3, PreTok, <<>>)
        f5 == IF v.Meta # <<>> THEN Replace(f4, MetaTok, <<"+">> \o v.Meta)
              ELSE Replace(f4, MetaTok, <<>>)
        f6 == Replace(f5, PreRaw, v.Pre)
    IN  Replace(f6, MetaRaw, v.Meta)

\* Version.Format: the numbers first (they hold no token character, so the
\* map's iteration order does not matter), then the optional and raw tokens.
Format(v, format) ==
    LET f0 == IF format = <<>> THEN Complete ELSE format
        f1 == Replace(f0, <<"M">>, Itoa(v.Major))
        f2 == Replace(f1, <<"m">>, Itoa(v.Minor))
        f3 == Replace(f2, <<"p">>, Itoa(v.Patch))
        f4 == IF v.Pre # <<>> THEN Replace(f3, PreTok, <<"-">> \o v.Pre)
              ELSE Replace(f3, PreTok, <<>>)
        f5 == IF v.Meta # <<>> THEN Replace(f4, MetaTok, <<"+">> \o v.Meta)
              ELSE Replace(f4, MetaTok, <<>>)
        f6 == Replace(f5, PreRaw, v.Pre)
    IN  Replace(f6, MetaRaw, v.Meta)

String(v) == Format(v, v.DefaultFormat)

(***************************************************************************)
(* Errors.  Every error is a record of the same shape; NilErr is Go's nil. *)
(***************************************************************************)

Err(kind, part, char, pos, input) ==
    [kind |-> kind, part |-> part, char |-> char, pos |-> pos, input |-> input]

NilErr == Err("nil", "", "", -1, <<>>)

\* The error with the position counted from one.
UnexpectedCharacterOneBased(c, i) == Err("UnexpectedCharacter", "", c, i + 1, <<>>)

UnexpectedCharacter(c, i) == Err("UnexpectedCharacter", "", c, i, <<>>)

VersionIncomplete(part) == Err("VersionIncomplete", part, "", -1, <<>>)

ZeroLengthNumeric(part) == Err("ZeroLengthNumeric", part, "", -1, <<>>)

PrecedingZero(part, s) == Err("PrecedingZero", part, "", -1, s)

\* The *strconv.NumError of strconv.Atoi.
NumError(s) == Err("NumError", "", "", -1, s)

\* fmt.Errorf("no version found in %q", s)
NoVersionFound(s) == Err("NoVersionFound", "", "", -1, s)

\* fmt.Errorf("unable to parse version range %q", s)
UnableToParseRange(s) == Err("UnableToParseRange", "", "", -1, s)

firstErr(errs) ==
    IF \E i \in 1..Len(errs) : errs[i] # NilErr
    THEN errs[CHOOSE i \in 1..Len(errs) :
                  errs[i] # NilErr /\ \A j \in 1..(i - 1) : errs[j] = NilErr]
    ELSE NilErr

\* A validation that knows empty components only.
validateNonEmpty(s, name) == IF Len(s) = 0 THEN ZeroLengthNumeric(name) ELSE NilErr

validateMMPFormat(s, name) ==
    IF Len(s) = 0 THEN ZeroLengthNumeric(name)
    ELSE IF Len(s) > 1 /\ s[1] = "0" THEN PrecedingZero(name, s)
    ELSE NilErr

(***************************************************************************)
(* The parser: one left-to-right scan with a field cursor m and a buffer   *)
(* per field.                                                              *)
(***************************************************************************)

modeMajor == 0
modeMinor == 1
modePatch == 2
modePre == 3
modeMeta == 4

ScanInit ==
    [m |-> modeMajor, major |-> <<>>, minor |-> <<>>, patch |-> <<>>,
     pre |-> <<>>, meta |-> <<>>,
     parsedMinor |-> FALSE, parsedPatch |-> FALSE,
     parsedPre |-> FALSE, parsedMeta |-> FALSE]

\* A validation error is appended to the known errors only when it is one.
AppendErr(errs, e) == IF e # NilErr THEN Append(errs, e) ELSE errs

\* finalise: the partial version of the buffers, and every error found.
finalise(st, knownErrors) ==
    LET v0 == MkVersion(0, 0, 0, <<>>, <<>>, Major)
        e1 == AppendErr(knownErrors, validateMMPFormat(st.major, "major"))
    IN  IF ~AtoiOk(st.major)
        THEN [v |-> v0, errs |-> Append(e1, NumError(st.major))]
        ELSE
        LET v1 == [v0 EXCEPT !.Major = Atoi(st.major)]
            v2 == IF st.parsedMinor THEN [v1 EXCEPT !.DefaultFormat = MajorMinor] ELSE v1
            e2 == IF st.parsedMinor
                  THEN AppendErr(e1, validateMMPFormat(st.minor, "minor")) ELSE e1
        IN  IF st.parsedMinor /\ ~AtoiOk(st.minor)
            THEN [v |-> v2, errs |-> Append(e2, NumError(st.minor))]
            ELSE
            LET v3 == IF st.parsedMinor THEN [v2 EXCEPT !.Minor = Atoi(st.minor)] ELSE v2
                v4 == IF st.parsedPatch
                      THEN [v3 EXCEPT !.DefaultFormat = MajorMinorPatch] ELSE v3
                e3 == IF st.parsedPatch
                      THEN AppendErr(e2, validateMMPFormat(st.patch, "patch")) ELSE e2
            IN  IF st.parsedPatch /\ ~AtoiOk(st.patch)
                THEN [v |-> v4, errs |-> Append(e3, NumError(st.patch))]
                ELSE
                LET v5 == IF st.parsedPatch THEN [v4 EXCEPT !.Patch = Atoi(st.patch)] ELSE v4
                    v6 == IF st.parsedPre
                          THEN [v5 EXCEPT !.DefaultFormat = @ \o PreTok] ELSE v5
                    v7 == IF st.parsedMeta
                          THEN [v6 EXCEPT !.DefaultFormat = @ \o MetaTok] ELSE v6
                IN  [v |-> [v7 EXCEPT !.Pre = st.pre, !.Meta = st.meta], errs |-> e3]

\* A changeMode without its first case: a dash opens the prerelease from
\* every field.
changeModeDashAlwaysOpens(m, c, i) ==
    IF m = modeMeta /\ c = "+"
    THEN [changed |-> FALSE, err |-> UnexpectedCharacter(c, i), m |-> m]
    ELSE IF m = modePatch /\ c = "."
    THEN [changed |-> FALSE, err |-> UnexpectedCharacter(c, i), m |-> m]
    ELSE IF (m = modeMajor \/ m = modeMinor) /\ c = "."
    THEN [changed |-> TRUE, err |-> NilErr, m |-> m + 1]
    ELSE IF c = "-" THEN [changed |-> TRUE, err |-> NilErr, m |-> modePre]
    ELSE IF c = "+" THEN [changed |-> TRUE, err |-> NilErr, m |-> modeMeta]
    ELSE [changed |-> FALSE, err |-> NilErr, m |-> m]

\* changeMode at character c (0-based position i) with the cursor at m.
changeMode(m, c, i) ==
    IF (m = modePre \/ m = modeMeta) /\ c = "-"
    THEN [changed |-> FALSE, err |-> NilErr, m |-> m]
    ELSE IF m = modeMeta /\ c = "+"
    THEN [changed |-> FALSE, err |-> UnexpectedCharacter(c, i), m |-> m]
    ELSE IF m = modePatch /\ c = "."
    THEN [changed |-> FALSE, err |-> UnexpectedCharacter(c, i), m |-> m]
    ELSE IF (m = modeMajor \/ m = modeMinor) /\ c = "."
    THEN [changed |-> TRUE, err |-> NilErr, m |-> m + 1]
    ELSE IF c = "-" THEN [changed |-> TRUE, err |-> NilErr, m |-> modePre]
    ELSE IF c = "+" THEN [changed |-> TRUE, err |-> NilErr, m |-> modeMeta]
    ELSE [changed |-> FALSE, err |-> NilErr, m |-> m]

\* targets[m].WriteRune(c)
WriteRune(st, c) ==
    IF st.m = modeMajor THEN [st EXCEPT !.major = Append(@, c)]
    ELSE IF st.m = modeMinor THEN [st EXCEPT !.minor = Append(@, c)]
    ELSE IF st.m = modePatch THEN [st EXCEPT !.patch = Append(@, c)]
    ELSE IF st.m = modePre THEN [st EXCEPT !.pre = Append(@, c)]
    ELSE [st EXCEPT !.meta = Append(@, c)]

\* A loop head that records the numeric fields only.
MarkParsedNumbersOnly(st) ==
    [st EXCEPT !.parsedMinor = @ \/ st.m = modeMinor,
               !.parsedPatch = @ \/ st.m = modePatch]

\* The head of the loop body: the cursor's field counts as parsed.
MarkParsed(st) ==
    [st EXCEPT !.parsedMinor = @ \/ st.m = modeMinor,
               !.parsedPatch = @ \/ st.m = modePatch,
               !.parsedPre = @ \/ st.m = modePre,
               !.parsedMeta = @ \/ st.m = modeMeta]

\* The loop of parse from the k-th character (1-based) on, and its end.
RECURSIVE scan(_, _, _)
scan(s, k, st) ==
    IF k > Len(s)
    THEN IF ~st.parsedMinor THEN finalise(st, <<VersionIncomplete("minor")>>)
         ELSE IF ~st.parsedPatch THEN finalise(st, <<VersionIncomplete("patch")>>)
         ELSE finalise(st, <<NilErr>>)
    ELSE
    LET c == s[k]
        st1 == MarkParsed(st)
        cm == IF c \in {".", "-", "+"} THEN changeMode(st1.m, c, k - 1)
              ELSE [changed |-> FALSE, err |-> NilErr, m |-> st1.m]
    IN  IF cm.err # NilErr THEN finalise(st1, <<cm.err>>)
        ELSE IF cm.changed THEN scan(s, k + 1, [st1 EXCEPT !.m = cm.m])
        ELSE IF st1.m \in {modeMajor, modeMinor, modePatch}
        THEN IF c \in digits THEN scan(s, k + 1, WriteRune(st1, c))
             ELSE finalise(st1, <<UnexpectedCharacter(c, k - 1)>>)
        ELSE IF c \in validPreAndMetaChars THEN scan(s, k + 1, WriteRune(st1, c))
             ELSE finalise(st1, <<UnexpectedCharacter(c, k - 1)>>)

parse(s) == scan(s, 1, ScanInit)

\* Parse: the first error that is neither nil, PrecedingZero nor VersionIncomplete.
PermissiveErrs(errs) ==
    SelectSeq(errs, LAMBDA e : e.kind \notin {"nil", "PrecedingZero", "VersionIncomplete"})

\* A Parse that skips no error.
ParseUnfiltered(s) ==
    LET r == parse(s)
    IN  [v |-> r.v, err |-> firstErr(r.errs)]

Parse(s) ==
    LET r == parse(s)
    IN  [v |-> r.v, err |-> firstErr(PermissiveErrs(r.errs))]

\* A strict parser that lets the zero-length error pass.
ParseExactIgnoringEmpty(s) ==
    LET r == parse(s)
    IN  [v |-> r.v, err |-> firstErr(SelectSeq(r.errs, LAMBDA e : e.kind \notin {"ZeroLengthNumeric", "NumError"}))]

ParseExactSemver2(s) ==
    LET r == parse(s)
    IN  [v |-> r.v, err |-> firstErr(r.errs)]

\* ParseAny handing on the error of Parse; used to test the claims below.
ParseAnyStrictly(s) ==
    LET startIndex == IndexAnyDigit(s)
    IN  IF startIndex = 0 THEN [v |-> ZeroVersion, err |-> NoVersionFound(s)]
        ELSE Parse(SubSeq(s, startIndex, Len(s)))

ParseAny(s) ==
    LET startIndex == IndexAnyDigit(s)
    IN  IF startIndex = 0 THEN [v |-> ZeroVersion, err |-> NoVersionFound(s)]
        ELSE [v |-> Parse(SubSeq(s, startIndex, Len(s))).v, err |-> NilErr]

(***************************************************************************)
(* The comparator: semantic versioning 2.0.0 precedence.                   *)
(***************************************************************************)

\* The dot-separated identifiers of a non-empty prerelease.
RECURSIVE SplitDots(_, _)
SplitDots(s, cur) ==
    IF s = <<>> THEN <<cur>>
    ELSE IF Head(s) = "." THEN <<cur>> \o SplitDots(Tail(s), <<>>)
    ELSE SplitDots(Tail(s), Append(cur, Head(s)))

\* The prerelease as a sequence of identifiers; the empty one has none.
Identifiers(pre) == IF pre = <<>> THEN <<>> ELSE SplitDots(pre, <<>>)

\* An identifier that parses as an integer: decimal digits only.
IsNumeric(id) == AtoiOk(id)

\* Text order, character by character; a proper prefix is less.
RECURSIVE TextLess(_, _)
TextLess(x, y) ==
    IF y = <<>> THEN FALSE
    ELSE IF x = <<>> THEN TRUE
    ELSE IF Head(x) # Head(y) THEN Ord(Head(x)) < Ord(Head(y))
    ELSE TextLess(Tail(x), Tail(y))

\* Identifiers compared as text whatever they hold.
IdLessTextOnly(x, y) == TextLess(x, y)

\* A number against a text decided without asking which side the number is on.
IdLessMixedEitherWay(x, y) ==
    IF IsNumeric(x) /\ IsNumeric(y) THEN Atoi(x) < Atoi(y)
    ELSE IF IsNumeric(x) \/ IsNumeric(y) THEN TRUE
    ELSE TextLess(x, y)

\* One identifier against another: numbers numerically, a number below a
\* text, texts as text.
IdLess(x, y) ==
    IF IsNumeric(x) /\ IsNumeric(y) THEN Atoi(x) < Atoi(y)
    ELSE IF IsNumeric(x) THEN TRUE
    ELSE IF IsNumeric(y) THEN FALSE
    ELSE TextLess(x, y)

\* Identifier by identifier; when one sequence ends first, it is the lesser.
RECURSIVE PreLess(_, _)
PreLess(x, y) ==
    IF y = <<>> THEN FALSE
    ELSE IF x = <<>> THEN TRUE
    ELSE IF IdLess(Head(x), Head(y)) THEN TRUE
    ELSE IF IdLess(Head(y), Head(x)) THEN FALSE
    ELSE PreLess(Tail(x), Tail(y))

\* A comparator that lets the build metadata break a tie.
LessWithMeta(a, b) ==
    IF a.Major # b.Major THEN a.Major < b.Major
    ELSE IF a.Minor # b.Minor THEN a.Minor < b.Minor
    ELSE IF a.Patch # b.Patch THEN a.Patch < b.Patch
    ELSE IF a.Pre # b.Pre
         THEN IF a.Pre = <<>> THEN FALSE
              ELSE IF b.Pre = <<>> THEN TRUE
              ELSE PreLess(Identifiers(a.Pre), Identifiers(b.Pre))
    ELSE TextLess(a.Meta, b.Meta)

\* Version.Less
Less(a, b) ==
    IF a.Major # b.Major THEN a.Major < b.Major
    ELSE IF a.Minor # b.Minor THEN a.Minor < b.Minor
    ELSE IF a.Patch # b.Patch THEN a.Patch < b.Patch
    ELSE IF a.Pre = <<>> THEN FALSE
    ELSE IF b.Pre = <<>> THEN TRUE
    ELSE PreLess(Identifiers(a.Pre), Identifiers(b.Pre))

\* Version.Equals
Equals(a, b) == ~Less(a, b) /\ ~Less(b, a)

IncrementMajor(v) == [v EXCEPT !.Major = @ + 1, !.Minor = 0, !.Patch = 0]

IncrementMinor(v) == [v EXCEPT !.Minor = @ + 1, !.Patch = 0]

IncrementPatch(v) == [v EXCEPT !.Patch = @ + 1]

(***************************************************************************)
(* Ranges.  A bound is a *Version: the nil pointer, or an address and the  *)
(* version stored there.                                                   *)
(***************************************************************************)

NilPtr == [ptr |-> 0, val |-> ZeroVersion]

Ptr(addr, v) == [ptr |-> addr, val |-> v]

\* (*Version).ValueEquals
ValueEquals(p, q) ==
    IF p = NilPtr /\ q = NilPtr THEN TRUE
    ELSE IF p = NilPtr \/ q = NilPtr THEN FALSE
    ELSE Equals(p.val, q.val)

MkRange(min, minEqual, max, maxEqual) ==
    [Min |-> min, MinEqual |-> minEqual, Max |-> max, MaxEqual |-> maxEqual]

ZeroRange == MkRange(NilPtr, NilPtr, NilPtr, NilPtr)

\* The constructors; addr is where the parameter's copy lives.
GreaterThan(v, addr) == MkRange(Ptr(addr, v), NilPtr, NilPtr, NilPtr)

LessThan(v, addr) == MkRange(NilPtr, NilPtr, Ptr(addr, v), NilPtr)

EqualTo(v, addr) == MkRange(NilPtr, Ptr(addr, v), NilPtr, Ptr(addr, v))

GreaterThanOrEqualTo(v, addr) == MkRange(NilPtr, Ptr(addr, v), NilPtr, NilPtr)

LessThanOrEqualTo(v, addr) == MkRange(NilPtr, NilPtr, NilPtr, Ptr(addr, v))

GreaterThanOrEqualToAndLessThan(min, lessThan, addr) ==
    MkRange(NilPtr, Ptr(addr, min), Ptr(addr + 1, lessThan), NilPtr)

\* A satisfaction test that lets the exclusive upper bound itself through.
SatisfiedByMaxInclusive(r, v) ==
    /\ r.Min # NilPtr => Less(r.Min.val, v)
    /\ r.Max # NilPtr => ~Less(r.Max.val, v)
    /\ r.MinEqual # NilPtr => (Equals(v, r.MinEqual.val) \/ Less(r.MinEqual.val, v))
    /\ r.MaxEqual # NilPtr => (Equals(v, r.MaxEqual.val) \/ Less(v, r.MaxEqual.val))

\* Range.SatisfiedBy
SatisfiedBy(r, v) ==
    IF r.Min # NilPtr /\ ~Less(r.Min.val, v) THEN FALSE
    ELSE IF r.Max # NilPtr /\ ~Less(v, r.Max.val) THEN FALSE
    ELSE IF r.MinEqual # NilPtr /\ ~Equals(v, r.MinEqual.val) /\ ~Less(r.MinEqual.val, v)
    THEN FALSE
    ELSE IF r.MaxEqual # NilPtr /\ ~Equals(v, r.MaxEqual.val) /\ ~Less(v, r.MaxEqual.val)
    THEN FALSE
    ELSE TRUE

\* out += " " when a lower clause was written
Join(out, clause) == IF out # <<>> THEN out \o <<" ">> \o clause ELSE clause

\* The two clauses of Range.String.
Clauses(r) ==
    LET lower == IF r.Min # NilPtr THEN <<">">> \o String(r.Min.val)
                 ELSE IF r.MinEqual # NilPtr THEN <<">", "=">> \o String(r.MinEqual.val)
                 ELSE <<>>
    IN  IF r.Max # NilPtr THEN Join(lower, <<"<">> \o String(r.Max.val))
        ELSE IF r.MaxEqual # NilPtr THEN Join(lower, <<"<", "=">> \o String(r.MaxEqual.val))
        ELSE lower

\* A renderer without the caret and tilde special cases.
RangeStringNoShortcut(r) ==
    IF r.MinEqual # NilPtr /\ r.MaxEqual # NilPtr /\ Equals(r.MaxEqual.val, r.MinEqual.val)
    THEN String(r.MinEqual.val)
    ELSE Clauses(r)

\* Range.String
RangeString(r) ==
    IF r.MinEqual # NilPtr /\ r.MaxEqual # NilPtr /\ Equals(r.MaxEqual.val, r.MinEqual.val)
    THEN String(r.MinEqual.val)
    ELSE IF r.MinEqual # NilPtr /\ r.Max # NilPtr
            /\ Equals(r.Max.val, IncrementMajor(r.MinEqual.val))
    THEN <<"^">> \o String(r.MinEqual.val)
    ELSE IF r.MinEqual # NilPtr /\ r.Max # NilPtr
            /\ Equals(r.Max.val, IncrementMinor(r.MinEqual.val))
    THEN <<"~">> \o String(r.MinEqual.val)
    ELSE Clauses(r)

\* An equality that forgets the inclusive upper bound.
RangeEqualsNoMaxEqual(r, other) ==
    /\ ValueEquals(r.Min, other.Min)
    /\ ValueEquals(r.Max, other.Max)
    /\ ValueEquals(r.MinEqual, other.MinEqual)

\* Range.Equals
RangeEquals(r, other) ==
    /\ ValueEquals(r.Min, other.Min)
    /\ ValueEquals(r.Max, other.Max)
    /\ ValueEquals(r.MinEqual, other.MinEqual)
    /\ ValueEquals(r.MaxEqual, other.MaxEqual)

\* Go's == on two Range values: the four pointers compared as addresses.
RangePointerEq(r, other) ==
    /\ r.Min.ptr = other.Min.ptr
    /\ r.Max.ptr = other.Max.ptr
    /\ r.MinEqual.ptr = other.MinEqual.ptr
    /\ r.MaxEqual.ptr = other.MaxEqual.ptr

\* The outcome of a call: a result and an error, or a run-time panic.
Returned(r, err) == [panic |-> FALSE, r |-> r, err |-> err]

Panicked == [panic |-> TRUE, r |-> ZeroRange, err |-> NilErr]

\* The bounds of "~v" and "^v": a copy of v with the numbers stepped.
TildeMax(v) == [v EXCEPT !.Minor = @ + 1, !.Patch = 0]

CaretMax(v) == [v EXCEPT !.Major = @ + 1, !.Minor = 0, !.Patch = 0]

\* The dispatch of ParseRange on s[0], once s[:2] named no operator.
DispatchOne(s, v, addr) ==
    IF s[1] = "=" \/ s[1] \in digits THEN Returned(EqualTo(v, addr), NilErr)
    ELSE IF s[1] = ">" THEN Returned(GreaterThan(v, addr), NilErr)
    ELSE IF s[1] = "<" THEN Returned(LessThan(v, addr), NilErr)
    ELSE IF s[1] = "~"
    THEN Returned(MkRange(NilPtr, Ptr(addr, v), Ptr(addr + 1, TildeMax(v)), NilPtr), NilErr)
    ELSE IF s[1] = "^"
    THEN Returned(MkRange(NilPtr, Ptr(addr, v), Ptr(addr + 1, CaretMax(v)), NilPtr), NilErr)
    ELSE Returned(ZeroRange, UnableToParseRange(s))

\* The two switches of ParseRange; s[:2] panics on a text shorter than two bytes.
Dispatch(s, v, addr) ==
    IF Len(s) < 2 THEN Panicked
    ELSE IF SubSeq(s, 1, 2) = <<"=", "=">> THEN Returned(EqualTo(v, addr), NilErr)
    ELSE IF SubSeq(s, 1, 2) = <<">", "=">> THEN Returned(GreaterThanOrEqualTo(v, addr), NilErr)
    ELSE IF SubSeq(s, 1, 2) = <<"<", "=">> THEN Returned(LessThanOrEqualTo(v, addr), NilErr)
    ELSE DispatchOne(s, v, addr)

\* ParseRange: v, err := ParseAny(s), then the switches on the operator.
ParseRange(s, addr) ==
    CHOOSE out \in {IF pa.err # NilErr THEN Returned(ZeroRange, pa.err)
                    ELSE Dispatch(s, pa.v, addr) : pa \in {ParseAny(s)}} : TRUE

(***************************************************************************)
(* The bounds of the model and the inputs drawn within them.               *)
(***************************************************************************)

\* The largest major, minor or patch number of a version built directly.
MaxNum == 1

\* The longest prerelease text drawn from PreAlphabet.
MaxPreLen == 2

SeqsUpTo(S, n) == UNION {[1..k -> S] : k \in 0..n}

PreAlphabet == {"1", "a", "."}

\* Numeric identifiers with a zero: equal numbers of different texts.
ZeroPres == {<<"0">>, <<"0", "1">>, <<"1", "0">>}

GenPres == (SeqsUpTo(PreAlphabet, MaxPreLen) \ {<<>>}) \cup ZeroPres

\* The prereleases of the precedence example of semver 2.0.0, section 11.
ChainPres ==
    << <<"a", "l", "p", "h", "a">>,
       <<"a", "l", "p", "h", "a", ".", "1">>,
       <<"a", "l", "p", "h", "a", ".", "b", "e", "t", "a">>,
       <<"b", "e", "t", "a">>,
       <<"b", "e", "t", "a", ".", "2">>,
       <<"b", "e", "t", "a", ".", "1", "1">>,
       <<"r", "c", ".", "1">>,
       <<>> >>

Chain == [i \in 1..Len(ChainPres) |-> NewVersion(1, 0, 0, ChainPres[i], <<>>)]

\* Every number triple with and without a prerelease, and every prerelease
\* at 1.0.0.
CompareVersions ==
    {NewVersion(ma, mi, pa, p, <<>>) :
        ma \in 0..MaxNum, mi \in 0..MaxNum, pa \in 0..MaxNum, p \in {<<>>, <<"a">>}}
    \cup {NewVersion(1, 0, 0, p, <<>>) : p \in GenPres}
    \cup {Chain[i] : i \in 1..Len(Chain)}

Metas == {<<>>, <<"1">>, <<"a">>}

Shapes == {<<>>, Major, Complete}

(***************************************************************************)
(* The calls.  A caller at "idle" makes one call, which runs to its end    *)
(* and leaves its arguments and results in args and ret; Reset takes the   *)
(* caller back to "idle".                                                  *)
(***************************************************************************)

Init ==
    /\ pc = "idle"
    /\ op = "none"
    /\ args = <<>>
    /\ ret = <<>>

Reset ==
    /\ pc = "done"
    /\ pc' = "idle"
    /\ op' = "none"
    /\ args' = <<>>
    /\ ret' = <<>>

\* a.Less(b), b.Less(a), a.Equals(b) and b.Equals(a) on two versions.
Compare(a, b) ==
    /\ pc' = "done"
    /\ op' = "Compare"
    /\ args' = [a |-> a, b |-> b]
    /\ ret' = [less_ab |-> Less(a, b), less_ba |-> Less(b, a),
               equals_ab |-> Equals(a, b), equals_ba |-> Equals(b, a)]

CompareAny ==
    /\ pc = "idle"
    /\ \E a \in CompareVersions, b \in CompareVersions : Compare(a, b)

\* The same on two versions that differ at most in metadata and shape.
CompareDecorated ==
    /\ pc = "idle"
    /\ \E v \in CompareVersions, ma \in Metas, mb \in Metas, fa \in Shapes, fb \in Shapes :
           Compare([v EXCEPT !.Meta = ma, !.DefaultFormat = fa],
                   [v EXCEPT !.Meta = mb, !.DefaultFormat = fb])

NextCompare == CompareAny \/ CompareDecorated \/ Reset

SpecCompare == Init /\ [][NextCompare]_vars

(***************************************************************************)
(* Calls on ranges.                                                        *)
(***************************************************************************)

\* The largest major or minor number of a version used as a range bound.
MaxBoundNum == 1

\* The shape the parser records for a complete version text.
ShapeOf(pre, meta) ==
    MajorMinorPatch \o (IF pre # <<>> THEN PreTok ELSE <<>>)
                    \o (IF meta # <<>> THEN MetaTok ELSE <<>>)

Shaped(ma, mi, pa, pre, meta) == MkVersion(ma, mi, pa, pre, meta, ShapeOf(pre, meta))

\* Bounds for the satisfaction test: releases and prereleases of x.0.0.
SatBounds == {Shaped(ma, 0, 0, p, <<>>) : ma \in 0..MaxBoundNum, p \in {<<>>, <<"a">>}}

\* The versions tested against a range, and the bounds of a rendered range.
BoundVersions ==
    {Shaped(ma, mi, 0, p, <<>>) : ma \in 0..MaxBoundNum, mi \in 0..MaxBoundNum,
                                  p \in {<<>>, <<"a">>}}
    \cup {Shaped(1, 0, 0, <<>>, <<"1">>), MkVersion(1, 0, 0, <<>>, <<>>, Major)}

\* Versions for range equality: equal precedence under different metadata.
EqVersions == {Shaped(ma, 0, 0, <<>>, meta) : ma \in 0..MaxBoundNum, meta \in {<<>>, <<"1">>}}

PtrsTo(S, addr) == {NilPtr} \cup {Ptr(addr, v) : v \in S}

\* Range{...} literals with any of the four bounds set.
LiteralRanges ==
    {MkRange(a, b, c, d) : a \in PtrsTo(SatBounds, 1), b \in PtrsTo(SatBounds, 2),
                           c \in PtrsTo(SatBounds, 3), d \in PtrsTo(SatBounds, 4)}

\* Range{...} literals with at most one lower and at most one upper bound.
WellFormed(r) ==
    /\ r.Min = NilPtr \/ r.MinEqual = NilPtr
    /\ r.Max = NilPtr \/ r.MaxEqual = NilPtr

RenderedRanges ==
    {r \in {MkRange(a, b, c, d) :
                a \in PtrsTo(BoundVersions, 1), b \in {NilPtr},
                c \in PtrsTo(BoundVersions, 3), d \in PtrsTo(BoundVersions, 4)} :
        WellFormed(r)}
    \cup
    {r \in {MkRange(a, b, c, d) :
                a \in {NilPtr}, b \in PtrsTo(BoundVersions, 2),
                c \in PtrsTo(BoundVersions, 3), d \in PtrsTo(BoundVersions, 4)} :
        WellFormed(r)}

Constructors ==
    {"GreaterThan", "LessThan", "EqualTo", "GreaterThanOrEqualTo",
     "LessThanOrEqualTo", "GreaterThanOrEqualToAndLessThan"}

\* The range constructor k makes of v (and of w, when it takes two versions).
Build(k, v, w, addr) ==
    CASE k = "GreaterThan" -> GreaterThan(v, addr)
      [] k = "LessThan" -> LessThan(v, addr)
      [] k = "EqualTo" -> EqualTo(v, addr)
      [] k = "GreaterThanOrEqualTo" -> GreaterThanOrEqualTo(v, addr)
      [] k = "LessThanOrEqualTo" -> LessThanOrEqualTo(v, addr)
      [] OTHER -> GreaterThanOrEqualToAndLessThan(v, w, addr)

\* The second version matters to the two-version constructor only.
SecondArgs(k) == IF k = "GreaterThanOrEqualToAndLessThan" THEN EqVersions ELSE {ZeroVersion}

\* r.SatisfiedBy(v)
CallSatisfiedBy ==
    /\ pc = "idle"
    /\ \E r \in LiteralRanges, v \in BoundVersions :
           /\ pc' = "done"
           /\ op' = "SatisfiedBy"
           /\ args' = [r |-> r, v |-> v]
           /\ ret' = [ok |-> SatisfiedBy(r, v)]

\* r.String()
CallRangeString ==
    /\ pc = "idle"
    /\ \E r \in RenderedRanges :
           /\ pc' = "done"
           /\ op' = "RangeString"
           /\ args' = [r |-> r]
           /\ ret' = [text |-> RangeString(r)]

\* Two ranges are constructed, the second at the first's addresses (the same
\* value) or at fresh ones, and compared both ways and each with itself.
CallRangeEquals ==
    /\ pc = "idle"
    /\ \E k1 \in Constructors, k2 \in Constructors, v1 \in EqVersions, v2 \in EqVersions,
          addr2 \in {1, 3} :
        \E w1 \in SecondArgs(k1), w2 \in SecondArgs(k2) :
            LET r1 == Build(k1, v1, w1, 1)
                r2 == Build(k2, v2, w2, addr2)
            IN  /\ pc' = "done"
                /\ op' = "RangeEquals"
                /\ args' = [r1 |-> r1, r2 |-> r2, k1 |-> k1, k2 |-> k2,
                            v1 |-> v1, v2 |-> v2, w1 |-> w1, w2 |-> w2]
                /\ ret' = [eq |-> RangeEquals(r1, r2), eq_rev |-> RangeEquals(r2, r1),
                           self1 |-> RangeEquals(r1, r1), self2 |-> RangeEquals(r2, r2)]

NextRange == CallSatisfiedBy \/ CallRangeString \/ CallRangeEquals \/ Reset

SpecRange == Init /\ [][NextRange]_vars

(***************************************************************************)
(* Calls of ParseRange.                                                    *)
(***************************************************************************)

\* The most digits of the major number of a range text.
MaxDigits == 2

\* The most blanks between the operator and the version of a range text.
MaxBlanks == 1

\* The longest range text drawn character by character.
MaxTextLen == 2

\* The largest number in the version of a caret or tilde range that is
\* tested for satisfaction.
MaxSatNum == 1

MajorTexts == SeqsUpTo({"0", "1", "9"}, MaxDigits) \ {<<>>}

MinorTexts == {<<"0">>, <<"9">>}

PreTexts == {<<>>, <<"-", "a">>, <<"-", "b", ".", "1">>}

MetaTexts == {<<>>, <<"+", "1">>}

\* Version texts of the shapes "1", "1.2" and "1.2.3", with an optional
\* prerelease and optional metadata.
VersionTexts ==
    {ma \o rest \o pre \o meta :
        ma \in MajorTexts,
        rest \in {<<>>} \cup {<<".">> \o mi : mi \in MinorTexts}
                 \cup {<<".">> \o mi \o <<".">> \o pa : mi \in MinorTexts, pa \in MinorTexts},
        pre \in PreTexts, meta \in MetaTexts}

\* The operators of the table; the empty one is the bare version.
Operators ==
    {<<>>, <<"=">>, <<"=", "=">>, <<">">>, <<"<">>, <<">", "=">>, <<"<", "=">>,
     <<"~">>, <<"^">>}

Blanks(n) == [i \in 1..n |-> " "]

RawAlphabet == {"1", ".", "-", "=", ">", "<", "~", "^", " ", "x"}

RawTexts == SeqsUpTo(RawAlphabet, MaxTextLen)

\* What ParseRange gave, and String() of the range when it gave one.
OutcomeAndString(out) ==
    [out |-> out,
     text |-> IF ~out.panic /\ out.err = NilErr THEN RangeString(out.r) ELSE <<>>]

\* ParseRange(oper + blanks + vt), and String() of the range returned.
CallParseRange ==
    /\ pc = "idle"
    /\ \E oper \in Operators, n \in 0..MaxBlanks, vt \in VersionTexts :
           \E out \in {ParseRange(oper \o Blanks(n) \o vt, 1)} :
               /\ pc' = "done"
               /\ op' = "ParseRange"
               /\ args' = [s |-> oper \o Blanks(n) \o vt, oper |-> oper, blanks |-> n,
                           vt |-> vt]
               /\ ret' = OutcomeAndString(out)

\* ParseRange of any short text.
CallParseRangeRaw ==
    /\ pc = "idle"
    /\ \E s \in RawTexts :
           \E out \in {ParseRange(s, 1)} :
               /\ pc' = "done"
               /\ op' = "ParseRangeRaw"
               /\ args' = [s |-> s]
               /\ ret' = OutcomeAndString(out)

\* The text of a complete version.
VersionText(ma, mi, pa, pre) ==
    Itoa(ma) \o <<".">> \o Itoa(mi) \o <<".">> \o Itoa(pa) \o pre

\* "^4.3.2-beta.3" and "5.0.0-alpha" of TestIsNotSatisfiedBy.
TestRangeVersionText == <<"4", ".", "3", ".", "2", "-", "b", "e", "t", "a", ".", "3">>

TestVersionText == <<"5", ".", "0", ".", "0", "-", "a", "l", "p", "h", "a">>

SatRangeVersionTexts ==
    {VersionText(ma, mi, pa, pre) :
        ma \in 0..MaxSatNum, mi \in 0..MaxSatNum, pa \in 0..MaxSatNum,
        pre \in {<<>>, <<"-", "b">>}}
    \cup {TestRangeVersionText}

SatVersionTexts ==
    {VersionText(ma, mi, pa, pre) :
        ma \in 0..(MaxSatNum + 1), mi \in 0..(MaxSatNum + 1), pa \in 0..(MaxSatNum + 1),
        pre \in {<<>>, <<"-", "a">>, <<"-", "c">>}}
    \cup {TestVersionText}

\* ParseRange("^v") or ParseRange("~v"), then SatisfiedBy(Parse(x)).
CallParseRangeSatisfiedBy ==
    /\ pc = "idle"
    /\ \E oper \in {<<"^">>, <<"~">>}, vt \in SatRangeVersionTexts, xt \in SatVersionTexts :
           \E out \in {ParseRange(oper \o vt, 1)}, x \in {Parse(xt).v} :
               /\ pc' = "done"
               /\ op' = "ParseRangeSatisfiedBy"
               /\ args' = [s |-> oper \o vt, oper |-> oper, vt |-> vt, xt |-> xt,
                           v |-> Parse(vt).v, x |-> x]
               /\ ret' = [out |-> out, sat |-> SatisfiedBy(out.r, x)]

NextParseRange == CallParseRange \/ CallParseRangeRaw \/ CallParseRangeSatisfiedBy \/ Reset

SpecParseRange == Init /\ [][NextParseRange]_vars

(***************************************************************************)
(* Version lists.  A VersionList is a slice: the receiver of a method and  *)
(* the list it returns share one backing array, so each method gives the   *)
(* list returned (ret) and the receiver's elements after the call (vl).    *)
(***************************************************************************)

\* VersionList.Swap
Swap(vl, i, j) == [vl EXCEPT ![i] = vl[j], ![j] = vl[i]]

\* VersionList.Less
ListLess(vl, i, j) == Less(vl[i], vl[j])

\* The inner loop of the library's insertion sort: the element at j moves
\* down while it is less than the one before it.
RECURSIVE insertDown(_, _)
insertDown(vl, j) ==
    IF j > 1 /\ ListLess(vl, j, j - 1) THEN insertDown(Swap(vl, j, j - 1), j - 1)
    ELSE vl

\* sort.Sort on a slice of fewer than twelve elements: insertion sort from
\* the i-th element on.
RECURSIVE insertionSort(_, _)
insertionSort(vl, i) ==
    IF i > Len(vl) THEN vl ELSE insertionSort(insertDown(vl, i), i + 1)

\* A sort that leaves the last element where it is.
sortAllButLast(vl) ==
    IF Len(vl) < 2 THEN vl
    ELSE Append(insertionSort(SubSeq(vl, 1, Len(vl) - 1), 2), vl[Len(vl)])

\* sort.Sort(vl), in place
sortSort(vl) == insertionSort(vl, 2)

\* sort.Reverse(vl): a new value that wraps vl with Less reversed; vl itself
\* is not touched.
sortReverse(vl) == [Interface |-> vl, reversed |-> TRUE]

\* Both the list returned and the receiver are the one backing array.
Aliased(arr) == [ret |-> arr, vl |-> arr]

\* VersionList.Sorted
Sorted(vl) == Aliased(sortSort(vl))

\* VersionList.SortedDesc: the value of sort.Reverse is dropped.
SortedDesc(vl) ==
    LET dropped == sortReverse(sortSort(vl))
    IN  Aliased(sortSort(vl))

\* The first element from position i on that satisfies r.
RECURSIVE firstSatisfying(_, _, _)
firstSatisfying(l, r, i) ==
    IF i > Len(l) THEN [v |-> ZeroVersion, ok |-> FALSE]
    ELSE IF SatisfiedBy(r, l[i]) THEN [v |-> l[i], ok |-> TRUE]
    ELSE firstSatisfying(l, r, i + 1)

\* A search that looks at the first element only.
GreatestSatisfyingHeadOnly(vl, r) ==
    [v |-> IF Len(vl) > 0 /\ SatisfiedBy(r, SortedDesc(vl).ret[1])
           THEN SortedDesc(vl).ret[1] ELSE ZeroVersion,
     ok |-> Len(vl) > 0 /\ SatisfiedBy(r, SortedDesc(vl).ret[1]),
     vl |-> SortedDesc(vl).vl]

\* VersionList.GreatestSatisfying
GreatestSatisfying(vl, r) ==
    [v |-> firstSatisfying(SortedDesc(vl).ret, r, 1).v,
     ok |-> firstSatisfying(SortedDesc(vl).ret, r, 1).ok,
     vl |-> SortedDesc(vl).vl]

(***************************************************************************)
(* Calls on version lists.                                                 *)
(***************************************************************************)

\* The longest list drawn.
MaxListLen == 3

\* "0.9.0", "0.9.9", "1.0.0" of the example, a prerelease, and a version
\* that differs from another in metadata only.
ListVersions ==
    {NewVersion(0, 9, 0, <<>>, <<>>), NewVersion(0, 9, 9, <<>>, <<>>),
     NewVersion(1, 0, 0, <<>>, <<>>), NewVersion(1, 0, 0, <<"b">>, <<>>),
     NewVersion(0, 9, 9, <<>>, <<"1">>)}

VersionLists == SeqsUpTo(ListVersions, MaxListLen)

\* "^0.9.0", "^2", "~0.9.1", ">=1.0.0", "<1.0.0", "1.0.0", ">0.9.0"
ListRangeTexts ==
    {<<"^", "0", ".", "9", ".", "0">>, <<"^", "2">>, <<"~", "0", ".", "9", ".", "1">>,
     <<">", "=", "1", ".", "0", ".", "0">>, <<"<", "1", ".", "0", ".", "0">>,
     <<"1", ".", "0", ".", "0">>, <<">", "0", ".", "9", ".", "0">>}

\* MustParseRange of the texts above, and the zero Range.
ListRanges == {ParseRange(t, 1).r : t \in ListRangeTexts} \cup {ZeroRange}

CallSorted ==
    /\ pc = "idle"
    /\ \E vl \in VersionLists :
           /\ pc' = "done"
           /\ op' = "Sorted"
           /\ args' = [vl |-> vl]
           /\ ret' = Sorted(vl)

CallSortedDesc ==
    /\ pc = "idle"
    /\ \E vl \in VersionLists :
           /\ pc' = "done"
           /\ op' = "SortedDesc"
           /\ args' = [vl |-> vl]
           /\ ret' = SortedDesc(vl)

CallGreatestSatisfying ==
    /\ pc = "idle"
    /\ \E vl \in VersionLists, r \in ListRanges :
           /\ pc' = "done"
           /\ op' = "GreatestSatisfying"
           /\ args' = [vl |-> vl, r |-> r]
           /\ ret' = GreatestSatisfying(vl, r)

NextList == CallSorted \/ CallSortedDesc \/ CallGreatestSatisfying \/ Reset

SpecList == Init /\ [][NextList]_vars

(***************************************************************************)
(* Calls of Parse and ParseExactSemver2.                                   *)
(***************************************************************************)

\* The longest version text drawn character by character.
MaxParseLen == 4

ParseAlphabet == {"0", "1", ".", "-", "+", "a", "!"}

\* Numeric components: plain, of two digits, and with leading zeros.
NumTexts == {<<"0">>, <<"1">>, <<"1", "0">>, <<"0", "1">>, <<"0", "0">>}

\* One to three numeric components.
NumLists == (SeqsUpTo(NumTexts, 3)) \ {<<>>}

\* Prereleases and metadata with their delimiter; letters that are also
\* format tokens, digits, dots and dashes.
ParsePres == {<<>>, <<"-", "a">>, <<"-", "b", ".", "1">>, <<"-", "p", "-", "M">>, <<"-", "0">>}

ParseMetas == {<<>>, <<"+", "1">>, <<"+", "m", ".", "p">>, <<"+", "-">>}

\* "1.x.2", "1.2.3.4" and "1.2.3-a+b+c" of the tests and the grammar.
ParseExamples ==
    {<<"1", ".", "x", ".", "2">>, <<"x", ".", "1", ".", "2">>, <<"1", ".", "2", ".", "x">>,
     <<"1", ".", "2", ".", "3", ".", "4">>,
     <<"1", ".", "2", ".", "3", "-", "a", "+", "b", "+", "c">>,
     <<"1", ".", "2", ".", "3", "-", "a", "!">>}

\* The components joined with dots.
RECURSIVE JoinDots(_)
JoinDots(nums) ==
    IF Len(nums) = 1 THEN nums[1] ELSE nums[1] \o <<".">> \o JoinDots(Tail(nums))

\* Texts with an empty field: "1..3", "1.2.-beta" and ".2.3" of the tests,
\* "1.2.", and an empty prerelease, metadata or identifier after a full
\* major.minor.patch.
EmptyFieldExamples ==
    {<<"1", ".", ".", "3">>,
     <<"1", ".", "2", ".", "-", "b", "e", "t", "a">>,
     <<".", "2", ".", "3">>,
     <<"1", ".", "2", ".">>,
     <<"1", ".", "2", ".", "3", "-">>,
     <<"1", ".", "2", ".", "3", "+">>,
     <<"1", ".", "2", ".", "3", "-", "b", "e", "t", "a", "+">>,
     <<"1", ".", "2", ".", "3", "-", "+", "m", "e", "t", "a">>,
     <<"1", ".", "2", ".", "3", "-", "a", ".", ".", "b">>,
     <<"1", ".", "2", ".", "3", "-", "0", "1">>}

RawParseTexts == SeqsUpTo(ParseAlphabet, MaxParseLen) \cup ParseExamples \cup EmptyFieldExamples

\* Parse(s), then String() of the version returned.
CallParse ==
    /\ pc = "idle"
    /\ \E nums \in NumLists, pre \in ParsePres, meta \in ParseMetas :
           \E out \in {Parse(JoinDots(nums) \o pre \o meta)} :
               /\ pc' = "done"
               /\ op' = "Parse"
               /\ args' = [s |-> JoinDots(nums) \o pre \o meta, built |-> TRUE,
                           nums |-> nums, pre |-> pre, meta |-> meta]
               /\ ret' = [v |-> out.v, err |-> out.err, text |-> String(out.v)]

CallParseText ==
    /\ pc = "idle"
    /\ \E s \in RawParseTexts :
           \E out \in {Parse(s)} :
               /\ pc' = "done"
               /\ op' = "Parse"
               /\ args' = [s |-> s, built |-> FALSE]
               /\ ret' = [v |-> out.v, err |-> out.err, text |-> String(out.v)]

CallParseExactSemver2 ==
    /\ pc = "idle"
    /\ \E nums \in NumLists, pre \in ParsePres, meta \in ParseMetas :
           \E out \in {ParseExactSemver2(JoinDots(nums) \o pre \o meta)} :
               /\ pc' = "done"
               /\ op' = "ParseExactSemver2"
               /\ args' = [s |-> JoinDots(nums) \o pre \o meta, built |-> TRUE,
                           nums |-> nums, pre |-> pre, meta |-> meta]
               /\ ret' = [v |-> out.v, err |-> out.err]

CallParseExactSemver2Text ==
    /\ pc = "idle"
    /\ \E s \in RawParseTexts :
           \E out \in {ParseExactSemver2(s)} :
               /\ pc' = "done"
               /\ op' = "ParseExactSemver2"
               /\ args' = [s |-> s, built |-> FALSE]
               /\ ret' = [v |-> out.v, err |-> out.err]

NextParse ==
    CallParse \/ CallParseText \/ CallParseExactSemver2 \/ CallParseExactSemver2Text \/ Reset

SpecParse == Init /\ [][NextParse]_vars

(***************************************************************************)
(* The comparator's properties.                                            *)
(***************************************************************************)

Compared == pc = "done" /\ op = "Compare"

ExactlyOne(p, q, r) == (p /\ ~q /\ ~r) \/ (~p /\ q /\ ~r) \/ (~p /\ ~q /\ r)

\* C1: Less and Equals are a strict total order on precedence: of a < b,
\* a == b and b < a exactly one holds, and a < b with b < c gives a < c,
\* for every third version c.
C1_TotalOrder ==
    Compared =>
        /\ ExactlyOne(ret.less_ab, ret.equals_ab, ret.less_ba)
        /\ ret.equals_ab = ret.equals_ba
        /\ \A c \in CompareVersions :
               (ret.less_ab /\ Less(args.b, c)) => Less(args.a, c)

\* C1 witness: a comparison that found a < b where some c lies above b.
C1_Witness ==
    /\ Compared
    /\ ret.less_ab
    /\ args.a.Pre # <<>> /\ args.b.Pre # <<>>
    /\ \E c \in CompareVersions : Less(args.b, c) /\ c.Pre # <<>>

\* The precedence of semver 2.0.0 on two identifiers, stated position by
\* position: x is below y in text order when they first differ at a
\* position where x ends or holds the smaller character.
TextBelow(x, y) ==
    \E k \in 1..Len(y) :
        /\ \A j \in 1..(k - 1) : j <= Len(x) /\ x[j] = y[j]
        /\ Len(x) >= k - 1
        /\ (Len(x) = k - 1 \/ Ord(x[k]) < Ord(y[k]))

AllDigits(x) == Len(x) > 0 /\ \A j \in 1..Len(x) : x[j] \in digits

IdBelow(x, y) ==
    IF AllDigits(x) /\ AllDigits(y) THEN AtoiDigits(x) < AtoiDigits(y)
    ELSE IF AllDigits(x) # AllDigits(y) THEN AllDigits(x)
    ELSE TextBelow(x, y)

IdSame(x, y) == ~IdBelow(x, y) /\ ~IdBelow(y, x)

\* The identifier sequence x is below y: at the first position where they
\* differ, x has ended or holds the lesser identifier.
PreBelow(x, y) ==
    \E k \in 1..Len(y) :
        /\ Len(x) >= k - 1
        /\ \A j \in 1..(k - 1) : IdSame(x[j], y[j])
        /\ (Len(x) = k - 1 \/ IdBelow(x[k], y[k]))

Precedes(a, b) ==
    \/ a.Major < b.Major
    \/ a.Major = b.Major /\ a.Minor < b.Minor
    \/ a.Major = b.Major /\ a.Minor = b.Minor /\ a.Patch < b.Patch
    \/ /\ a.Major = b.Major /\ a.Minor = b.Minor /\ a.Patch = b.Patch
       /\ a.Pre # <<>>
       /\ \/ b.Pre = <<>>
          \/ PreBelow(Identifiers(a.Pre), Identifiers(b.Pre))

ChainStep(i) == Compared /\ args.a = Chain[i] /\ args.b = Chain[i + 1]

\* C2: Less is the precedence of semver 2.0.0 (numbers first, a release
\* above its prereleases, prerelease identifiers numerically, number below
\* text, or as text, the shorter sequence below the longer), and each
\* version of the example chain is Less than its successor and not the
\* other way round.
C2_Precedence ==
    Compared =>
        /\ ret.less_ab = Precedes(args.a, args.b)
        /\ ret.less_ba = Precedes(args.b, args.a)
        /\ \A i \in 1..(Len(Chain) - 1) :
               ChainStep(i) => (ret.less_ab /\ ~ret.less_ba)

\* C2 witness: beta.2 was compared with beta.11, where numeric and text
\* order disagree.
C2_Witness == ChainStep(5) /\ ret.less_ab

SameCore(a, b) ==
    a.Major = b.Major /\ a.Minor = b.Minor /\ a.Patch = b.Patch /\ a.Pre = b.Pre

\* C3: metadata and shape take no part in comparison: two versions with the
\* same numbers and prerelease are Equals and neither is Less, and Equals
\* holds exactly when neither is Less than the other.
C3_MetaIgnored ==
    Compared =>
        /\ SameCore(args.a, args.b) =>
               (ret.equals_ab /\ ret.equals_ba /\ ~ret.less_ab /\ ~ret.less_ba)
        /\ ret.equals_ab = (~ret.less_ab /\ ~ret.less_ba)

\* C3 witness: two versions of one core with different metadata and
\* different shapes were compared.
C3_Witness ==
    /\ Compared
    /\ SameCore(args.a, args.b)
    /\ args.a.Pre # <<>>
    /\ args.a.Meta # args.b.Meta
    /\ args.a.DefaultFormat # args.b.DefaultFormat
    /\ ret.equals_ab

(***************************************************************************)
(* The range's properties.                                                 *)
(***************************************************************************)

LessOrEqual(a, b) == Less(a, b) \/ Equals(a, b)

Set(p) == p # NilPtr

LowerClause(r) ==
    IF Set(r.Min) THEN <<">">> \o String(r.Min.val)
    ELSE IF Set(r.MinEqual) THEN <<">", "=">> \o String(r.MinEqual.val)
    ELSE <<>>

UpperClause(r) ==
    IF Set(r.Max) THEN <<"<">> \o String(r.Max.val)
    ELSE IF Set(r.MaxEqual) THEN <<"<", "=">> \o String(r.MaxEqual.val)
    ELSE <<>>

IsExact(r) == Set(r.MinEqual) /\ Set(r.MaxEqual) /\ Equals(r.MinEqual.val, r.MaxEqual.val)

IsCaret(r) ==
    Set(r.MinEqual) /\ Set(r.Max) /\ Equals(r.Max.val, IncrementMajor(r.MinEqual.val))

IsTilde(r) ==
    Set(r.MinEqual) /\ Set(r.Max) /\ Equals(r.Max.val, IncrementMinor(r.MinEqual.val))

\* C8: Range.String renders an exact range as the bare version text, a
\* caret range as "^" and a tilde range as "~" before the lower bound's
\* text, and every other range as its lower and upper clause joined by
\* exactly one space, an absent clause being omitted.
C8_RangeString ==
    (pc = "done" /\ op = "RangeString") =>
        LET r == args.r
        IN  /\ IsExact(r) => ret.text = String(r.MinEqual.val)
            /\ IsCaret(r) => ret.text = <<"^">> \o String(r.MinEqual.val)
            /\ IsTilde(r) => ret.text = <<"~">> \o String(r.MinEqual.val)
            /\ (~IsExact(r) /\ ~IsCaret(r) /\ ~IsTilde(r)) =>
                   ret.text =
                       IF LowerClause(r) # <<>> /\ UpperClause(r) # <<>>
                       THEN LowerClause(r) \o <<" ">> \o UpperClause(r)
                       ELSE LowerClause(r) \o UpperClause(r)
            /\ r = ZeroRange => ret.text = <<>>

\* C8 witness: a caret range was rendered.
C8_Witness ==
    /\ pc = "done" /\ op = "RangeString"
    /\ IsCaret(args.r)
    /\ args.r.MinEqual.val.Pre # <<>>
    /\ ret.text[1] = "^"

BoundsAgree(p, q) ==
    \/ ~Set(p) /\ ~Set(q)
    \/ Set(p) /\ Set(q) /\ Equals(p.val, q.val)

\* C10: Range.Equals is structural equality of the four bounds (both absent,
\* or both present with versions equal by the comparator); every range
\* equals itself, Equals is symmetric, and two ranges built by the same
\* constructor from the same versions are equal at whatever addresses.
C10_RangeEquals ==
    (pc = "done" /\ op = "RangeEquals") =>
        /\ ret.eq = (/\ BoundsAgree(args.r1.Min, args.r2.Min)
                     /\ BoundsAgree(args.r1.MinEqual, args.r2.MinEqual)
                     /\ BoundsAgree(args.r1.Max, args.r2.Max)
                     /\ BoundsAgree(args.r1.MaxEqual, args.r2.MaxEqual))
        /\ ret.self1 /\ ret.self2
        /\ ret.eq = ret.eq_rev
        /\ (args.k1 = args.k2 /\ args.v1 = args.v2 /\ args.w1 = args.w2) => ret.eq

\* C10 witness: two ranges of the same constructor and versions, held at
\* different addresses, were found equal.
C10_Witness ==
    /\ pc = "done" /\ op = "RangeEquals"
    /\ args.k1 = args.k2 /\ args.v1 = args.v2 /\ args.w1 = args.w2
    /\ args.k1 = "GreaterThanOrEqualToAndLessThan"
    /\ ~RangePointerEq(args.r1, args.r2)
    /\ ret.eq

(***************************************************************************)
(* ParseRange's properties.                                                *)
(***************************************************************************)

ParsedRange == pc = "done" /\ op = "ParseRange"

\* The bounds the table gives the operator oper for the version v.
TableBounds(oper, v, r) ==
    CASE oper \in {<<>>, <<"=">>, <<"=", "=">>} ->
             /\ r.MinEqual.val = v /\ r.MaxEqual.val = v
             /\ Set(r.MinEqual) /\ Set(r.MaxEqual) /\ ~Set(r.Min) /\ ~Set(r.Max)
      [] oper = <<">">> ->
             r.Min.val = v /\ Set(r.Min) /\ ~Set(r.MinEqual) /\ ~Set(r.Max) /\ ~Set(r.MaxEqual)
      [] oper = <<"<">> ->
             r.Max.val = v /\ Set(r.Max) /\ ~Set(r.Min) /\ ~Set(r.MinEqual) /\ ~Set(r.MaxEqual)
      [] oper = <<">", "=">> ->
             r.MinEqual.val = v /\ Set(r.MinEqual) /\ ~Set(r.Min) /\ ~Set(r.Max)
             /\ ~Set(r.MaxEqual)
      [] oper = <<"<", "=">> ->
             r.MaxEqual.val = v /\ Set(r.MaxEqual) /\ ~Set(r.Min) /\ ~Set(r.MinEqual)
             /\ ~Set(r.Max)
      [] oper = <<"~">> ->
             /\ r.MinEqual.val = v /\ Set(r.MinEqual) /\ Set(r.Max)
             /\ ~Set(r.Min) /\ ~Set(r.MaxEqual)
             /\ r.Max.val = [v EXCEPT !.Minor = v.Minor + 1, !.Patch = 0]
      [] oper = <<"^">> ->
             /\ r.MinEqual.val = v /\ Set(r.MinEqual) /\ Set(r.Max)
             /\ ~Set(r.Min) /\ ~Set(r.MaxEqual)
             /\ r.Max.val = [v EXCEPT !.Major = v.Major + 1, !.Minor = 0, !.Patch = 0]

\* Blanks stand between an operator and the version, never before a bare one.
BlanksFollowOperator == args.oper = <<>> => args.blanks = 0

\* C5: for every version text v, ParseRange maps the operator before it to
\* the bounds of the table ("=v", "==v" and bare "v": MinEqual and
\* MaxEqual; ">v": Min; "<v": Max; ">=v": MinEqual; "<=v": MaxEqual; "~v"
\* and "^v": MinEqual and the stepped Max), two-character operators first,
\* blanks after the operator changing nothing.
C5_OperatorTable ==
    (ParsedRange /\ Parse(args.vt).err = NilErr /\ BlanksFollowOperator) =>
        /\ ~ret.out.panic
        /\ ret.out.err = NilErr
        /\ TableBounds(args.oper, Parse(args.vt).v, ret.out.r)

\* C5, short of the bare version of one character: the table holds for
\* every range text of two characters or more.
C5_TableFromTwoCharacters ==
    (ParsedRange /\ Parse(args.vt).err = NilErr /\ BlanksFollowOperator
                 /\ Len(args.s) >= 2) =>
        /\ ~ret.out.panic
        /\ ret.out.err = NilErr
        /\ TableBounds(args.oper, Parse(args.vt).v, ret.out.r)

SatisfiedParsed == pc = "done" /\ op = "ParseRangeSatisfiedBy"

\* The release that closes "^v" and "~v" from above.
UpperRelease(oper, v) ==
    IF oper = <<"^">> THEN NewMajorMinorPatch(v.Major + 1, 0, 0)
    ELSE NewMajorMinorPatch(v.Major, v.Minor + 1, 0)

SameNumbers(a, b) == a.Major = b.Major /\ a.Minor = b.Minor /\ a.Patch = b.Patch

\* C6: the range of "^v" is satisfied by exactly the versions x with
\* v <= x < (v.major+1).0.0, the range of "~v" by exactly those with
\* v <= x < v.major.(v.minor+1).0, the upper limit being the release: no
\* prerelease of that release satisfies the range.
C6_CaretTildeSatisfaction ==
    SatisfiedParsed =>
        /\ ~ret.out.panic /\ ret.out.err = NilErr
        /\ ret.sat = (/\ LessOrEqual(args.v, args.x)
                      /\ Less(args.x, UpperRelease(args.oper, args.v))
                      /\ ~SameNumbers(args.x, UpperRelease(args.oper, args.v)))

HasDigit(s) == \E i \in 1..Len(s) : s[i] \in digits

StartsRange(s) ==
    /\ Len(s) >= 1
    /\ s[1] \in digits \cup {"=", ">", "<", "~", "^"}

AnyParsedRange == pc = "done" /\ op \in {"ParseRange", "ParseRangeRaw"}

\* C7: ParseRange is total: on every text it returns a Range and no error,
\* or the zero Range and an error (an error when the text holds no digit,
\* the "unable to parse version range" error when it starts with neither an
\* operator nor a digit); it never aborts.
C7_ParseRangeTotal ==
    AnyParsedRange =>
        /\ ~ret.out.panic
        /\ ret.out.err # NilErr => ret.out.r = ZeroRange
        /\ ~HasDigit(args.s) => ret.out.err # NilErr
        /\ (HasDigit(args.s) /\ ~StartsRange(args.s)) =>
               ret.out.err = UnableToParseRange(args.s)

\* The text is one to three dot-separated numbers without leading zeros.
CanonicalRelease(vt) ==
    /\ \A i \in 1..Len(vt) : vt[i] \in digits \cup {"."}
    /\ \A i \in 1..Len(parse(vt).errs) :
           parse(vt).errs[i].kind \in {"nil", "VersionIncomplete"}

\* C9: caret and tilde ranges round-trip through text: for a canonical
\* release version text v, ParseRange("^" + v).String() is "^" + v and
\* ParseRange("~" + v).String() is "~" + v.
C9_CaretTildeRoundTrip ==
    (ParsedRange /\ args.oper \in {<<"^">>, <<"~">>} /\ args.blanks = 0
                 /\ CanonicalRelease(args.vt)) =>
        /\ ~ret.out.panic
        /\ ret.out.err = NilErr
        /\ ret.text = args.s

\* C9 witness: "~" before a major.minor text whose minor number carries
\* into a second digit when stepped.
C9_Witness ==
    /\ ParsedRange
    /\ args.oper = <<"~">> /\ args.blanks = 0
    /\ args.vt = <<"1", ".", "9">>
    /\ ret.text = <<"~", "1", ".", "9">>

(***************************************************************************)
(* The version list's properties.                                          *)
(***************************************************************************)

Count(l, v) == Cardinality({i \in 1..Len(l) : l[i] = v})

Permutation(a, b) ==
    /\ Len(a) = Len(b)
    /\ \A i \in 1..Len(a) : Count(a, a[i]) = Count(b, a[i])

Ascending(l) == \A i \in 1..Len(l), j \in 1..Len(l) : i < j => ~Less(l[j], l[i])

Descending(l) == \A i \in 1..Len(l), j \in 1..Len(l) : i < j => ~Less(l[i], l[j])

SortedCalled == pc = "done" /\ op = "Sorted"

\* C11: the list Sorted returns is a permutation of the receiver's elements
\* and is in ascending order: for i < j the element at j is not Less than
\* the element at i.
C11_SortedAscending ==
    SortedCalled => (Permutation(ret.ret, args.vl) /\ Ascending(ret.ret))

\* C11 witness: a list of three elements that is not ascending comes back
\* reordered.
C11_Witness ==
    /\ SortedCalled
    /\ Len(args.vl) = 3 /\ ~Ascending(args.vl)
    /\ ret.ret # args.vl /\ Ascending(ret.ret)

SortedDescCalled == pc = "done" /\ op = "SortedDesc"

\* C12: SortedDesc returns the list in descending order, the exact reverse
\* of Sorted: SortedDesc()[i] equals Sorted()[n-1-i] for every i, so for
\* i < j the element at i is not Less than the element at j.
C12_SortedDescReverse ==
    SortedDescCalled =>
        /\ Len(ret.ret) = Len(args.vl)
        /\ \A i \in 1..Len(ret.ret) :
               Equals(ret.ret[i], Sorted(args.vl).ret[Len(args.vl) + 1 - i])
        /\ Descending(ret.ret)

GreatestCalled == pc = "done" /\ op = "GreatestSatisfying"

Satisfying(vl, r) == {i \in 1..Len(vl) : SatisfiedBy(r, vl[i])}

\* C13: when GreatestSatisfying reports found, the version returned is an
\* element of the list that satisfies r, and no element that satisfies r
\* is greater than it.
C13_GreatestIsGreatest ==
    (GreatestCalled /\ ret.ok) =>
        /\ \E i \in Satisfying(args.vl, args.r) : args.vl[i] = ret.v
        /\ \A i \in Satisfying(args.vl, args.r) : ~Less(ret.v, args.vl[i])

\* C14: GreatestSatisfying reports not-found, with the zero Version, if and
\* only if no element of the list satisfies r.
C14_FoundIffSatisfiable ==
    GreatestCalled =>
        /\ ret.ok = (Satisfying(args.vl, args.r) # {})
        /\ ~ret.ok => ret.v = ZeroVersion

\* C14 witness: a list of three elements, none in the range, and a range
\* with a bound: not-found and the zero Version.
C14_Witness ==
    /\ GreatestCalled
    /\ Len(args.vl) = 3 /\ args.r # ZeroRange
    /\ Satisfying(args.vl, args.r) = {}
    /\ ~ret.ok /\ ret.v = ZeroVersion

\* C15: after Sorted, SortedDesc or GreatestSatisfying returns, the list it
\* was called on holds the same elements in the same order as before.
C15_ReceiverUnchanged ==
    (SortedCalled \/ SortedDescCalled \/ GreatestCalled) => ret.vl = args.vl

(***************************************************************************)
(* The parser's properties.  The fields of a text are told here from the   *)
(* text alone: the characters before a position decide the field that      *)
(* position is read in.                                                    *)
(***************************************************************************)

ParseCalled == pc = "done" /\ op = "Parse"

StrictCalled == pc = "done" /\ op = "ParseExactSemver2"

Chars(t) == {t[i] : i \in 1..Len(t)}

Dots(t) == Cardinality({i \in 1..Len(t) : t[i] = "."})

\* The field the i-th character of s is read in.
FieldAt(s, i) ==
    IF "+" \in Chars(SubSeq(s, 1, i - 1)) THEN "meta"
    ELSE IF "-" \in Chars(SubSeq(s, 1, i - 1)) THEN "pre"
    ELSE IF Dots(SubSeq(s, 1, i - 1)) = 0 THEN "major"
    ELSE IF Dots(SubSeq(s, 1, i - 1)) = 1 THEN "minor"
    ELSE "patch"

\* The i-th character of s is not valid where it stands.
Rejected(s, i) ==
    CASE FieldAt(s, i) \in {"major", "minor"} -> s[i] \notin digits \cup {".", "-", "+"}
      [] FieldAt(s, i) = "patch" -> s[i] \notin digits \cup {"-", "+"}
      [] FieldAt(s, i) = "pre" -> s[i] \notin validPreAndMetaChars \cup {"+"}
      [] FieldAt(s, i) = "meta" -> s[i] \notin validPreAndMetaChars

RejectedAt(s) == {i \in 1..Len(s) : Rejected(s, i)}

FirstRejected(s) == CHOOSE i \in RejectedAt(s) : \A j \in RejectedAt(s) : i <= j

Reached(s, field) == \E i \in 1..Len(s) : FieldAt(s, i) = field

\* The digits read in a field.
Digits(s, field) == {i \in 1..Len(s) : FieldAt(s, i) = field /\ s[i] \in digits}

Drop1(t) == IF t = <<>> THEN <<>> ELSE Tail(t)

\* The shape of a text of n numeric components.
ShapeFor(n, pre, meta) ==
    (IF n = 1 THEN Major ELSE IF n = 2 THEN MajorMinor ELSE MajorMinorPatch)
        \o (IF pre # <<>> THEN PreTok ELSE <<>>)
        \o (IF meta # <<>> THEN MetaTok ELSE <<>>)

NumAt(nums, k) == IF k <= Len(nums) THEN AtoiDigits(nums[k]) ELSE 0

\* C16: permissive Parse accepts partial versions: for a major or
\* major.minor text, with or without prerelease and metadata, it returns no
\* error, the absent components are zero and the shape names exactly the
\* components present, "-?" for a prerelease read and "+?" for metadata.
C16_PartialVersions ==
    (ParseCalled /\ args.built) =>
        /\ ret.err = NilErr
        /\ ret.v.Major = NumAt(args.nums, 1)
        /\ ret.v.Minor = NumAt(args.nums, 2)
        /\ ret.v.Patch = NumAt(args.nums, 3)
        /\ ret.v.Pre = Drop1(args.pre)
        /\ ret.v.Meta = Drop1(args.meta)
        /\ ret.v.DefaultFormat = ShapeFor(Len(args.nums), args.pre, args.meta)

\* C16 witness: "1-a" is major 1, minor 0, patch 0, prerelease "a", of shape "M-?".
C16_Witness ==
    /\ ParseCalled /\ args.built
    /\ args.s = <<"1", "-", "a">>
    /\ ret.err = NilErr
    /\ ret.v = MkVersion(1, 0, 0, <<"a">>, <<>>, Major \o PreTok)

NoLeadingZero(t) == Len(t) = 1 \/ t[1] # "0"

\* C17: Parse followed by String is the identity on canonical texts: one to
\* three components without leading zeros, then an optional non-empty
\* prerelease and optional non-empty metadata.
C17_ParseStringRoundTrip ==
    (ParseCalled /\ args.built /\ \A k \in 1..Len(args.nums) : NoLeadingZero(args.nums[k])) =>
        (ret.err = NilErr /\ ret.text = args.s)

\* C17 witness: "1.10-p-M+m.p", whose prerelease and metadata hold letters
\* that are format tokens, comes back as it was.
C17_Witness ==
    /\ ParseCalled /\ args.built
    /\ args.s = <<"1", ".", "1", "0", "-", "p", "-", "M", "+", "m", ".", "p">>
    /\ ret.text = args.s

\* C18: strict parsing rejects incomplete versions: for a text with no
\* character the grammar rejects, ParseExactSemver2 returns
\* VersionIncomplete("minor") when the scan never reached the minor field
\* and VersionIncomplete("patch") when it reached minor but never patch,
\* while Parse returns no error for the same text.
C18_StrictIncomplete ==
    (StrictCalled /\ RejectedAt(args.s) = {} /\ ~Reached(args.s, "patch")) =>
        /\ ret.err = VersionIncomplete(IF Reached(args.s, "minor") THEN "patch" ELSE "minor")
        /\ Parse(args.s).err = NilErr

\* The major component, and the minor one when its field was reached, hold
\* a digit.
NumbersPresent(s) ==
    /\ Digits(s, "major") # {}
    /\ Reached(s, "minor") => Digits(s, "minor") # {}

\* C18, amended: the same, for a text whose numeric components are not
\* empty; Parse fails with the zero-length error on an empty one.
C18_StrictIncompleteNonEmpty ==
    (StrictCalled /\ RejectedAt(args.s) = {} /\ ~Reached(args.s, "patch")) =>
        /\ ret.err = VersionIncomplete(IF Reached(args.s, "minor") THEN "patch" ELSE "minor")
        /\ NumbersPresent(args.s) => Parse(args.s).err = NilErr
        /\ ~NumbersPresent(args.s) => Parse(args.s).err.kind = "ZeroLengthNumeric"

\* C18 witness: "1.0" is incomplete for the strict parser, missing patch,
\* and a version for Parse.
C18_Witness ==
    /\ StrictCalled
    /\ args.s = <<"1", ".", "0">>
    /\ ret.err = VersionIncomplete("patch")
    /\ Parse(args.s).err = NilErr

PartName(k) == IF k = 1 THEN "major" ELSE IF k = 2 THEN "minor" ELSE "patch"

ZeroLed(nums) == {k \in 1..Len(nums) : ~NoLeadingZero(nums[k])}

FirstZeroLed(nums) == CHOOSE k \in ZeroLed(nums) : \A j \in ZeroLed(nums) : k <= j

\* C19: leading zeros are an error of the strict parser only: for a
\* complete text with a component of more than one digit that starts with
\* "0", ParseExactSemver2 returns PrecedingZero with the name and the text
\* of the first such component, Parse returns no error and the numeric
\* values; a component that is exactly "0" is no error.
C19_PrecedingZero ==
    (StrictCalled /\ args.built /\ Len(args.nums) = 3) =>
        /\ ZeroLed(args.nums) # {} =>
               /\ ret.err = PrecedingZero(PartName(FirstZeroLed(args.nums)),
                                          args.nums[FirstZeroLed(args.nums)])
               /\ Parse(args.s).err = NilErr
               /\ \A k \in 1..3 : NumAt(args.nums, k) =
                      <<Parse(args.s).v.Major, Parse(args.s).v.Minor, Parse(args.s).v.Patch>>[k]
        /\ ZeroLed(args.nums) = {} => ret.err = NilErr

\* C19 witness: "1.01.00" fails on the minor component "01", the first of two.
C19_Witness ==
    /\ StrictCalled /\ args.built
    /\ args.nums = <<(<<"1">>), (<<"0", "1">>), (<<"0", "0">>)>>
    /\ ret.err = PrecedingZero("minor", <<"0", "1">>)

\* C20: in both modes, a character that is not valid for the field it is
\* read in makes parsing fail with UnexpectedCharacter carrying that
\* character and its zero-based position, whatever else is wrong with the
\* text.
C20_UnexpectedCharacter ==
    ((ParseCalled \/ StrictCalled) /\ RejectedAt(args.s) # {}) =>
        /\ ret.err.kind = "UnexpectedCharacter"
        /\ ret.err.char = args.s[FirstRejected(args.s)]
        /\ ret.err.pos = FirstRejected(args.s) - 1

\* C20 witness: Parse("1.x.2") fails with UnexpectedCharacter('x', 2).
C20_Witness ==
    /\ ParseCalled
    /\ args.s = <<"1", ".", "x", ".", "2">>
    /\ ret.err.kind = "UnexpectedCharacter" /\ ret.err.char = "x" /\ ret.err.pos = 2

(***************************************************************************)
(* Empty fields.  A numeric field is opened by the start of the text       *)
(* (major) or by the "." that ends the field before it; the prerelease is  *)
(* opened by the first "-" and the metadata by the first "+".              *)
(***************************************************************************)

\* The "." that ends the given numeric field is in the text.
DotEnds(s, field) == \E i \in 1..Len(s) : s[i] = "." /\ FieldAt(s, i) = field

\* The numeric fields opened and left without a digit, as field numbers.
EmptyOpened(s) ==
    {k \in 1..3 :
        /\ k = 2 => DotEnds(s, "major")
        /\ k = 3 => DotEnds(s, "minor")
        /\ Digits(s, PartName(k)) = {}}

FirstEmptyOpened(s) == CHOOSE k \in EmptyOpened(s) : \A j \in EmptyOpened(s) : k <= j

\* C21: in both modes, for a text with no rejected character, parsing
\* fails with the zero-length error naming the first numeric field that was
\* opened and left empty: an empty major, or a "." followed by another
\* separator or by the end of the text.
C21_ZeroLengthNumeric ==
    ((ParseCalled \/ StrictCalled) /\ RejectedAt(args.s) = {} /\ EmptyOpened(args.s) # {}) =>
        ret.err = ZeroLengthNumeric(PartName(FirstEmptyOpened(args.s)))

\* The digits of a numeric field, as text.
NumText(s, field) ==
    IF Digits(s, field) = {} THEN <<>>
    ELSE SubSeq(s, CHOOSE i \in Digits(s, field) : \A j \in Digits(s, field) : i <= j,
                   CHOOSE i \in Digits(s, field) : \A j \in Digits(s, field) : i >= j)

\* The text has its three numeric fields, none empty and none zero-led,
\* and no rejected character.
CompleteNumbers(s) ==
    /\ RejectedAt(s) = {}
    /\ DotEnds(s, "major") /\ DotEnds(s, "minor")
    /\ \A k \in 1..3 : NumText(s, PartName(k)) # <<>> /\ NoLeadingZero(NumText(s, PartName(k)))

\* The characters stored in the prerelease and in the metadata.
PreText(s) == SelectSeq([i \in 1..Len(s) |-> IF FieldAt(s, i) = "pre" /\ s[i] # "+" THEN s[i] ELSE ""],
                        LAMBDA c : c # "")

MetaText(s) == SelectSeq([i \in 1..Len(s) |-> IF FieldAt(s, i) = "meta" THEN s[i] ELSE ""],
                         LAMBDA c : c # "")

PreOpened(s) == \E i \in 1..Len(s) : s[i] = "-" /\ FieldAt(s, i) \in {"major", "minor", "patch"}

MetaOpened(s) == "+" \in Chars(s)

\* The optional fields opened and left empty.
EmptyOptional(s) ==
    {f \in {"prerelease", "metadata"} :
        \/ f = "prerelease" /\ PreOpened(s) /\ PreText(s) = <<>>
        \/ f = "metadata" /\ MetaOpened(s) /\ MetaText(s) = <<>>}

\* C22: ParseExactSemver2 returns the zero-length error, naming the field,
\* for a text of three well-formed numbers whose prerelease or metadata is
\* opened by its "-" or "+" and left empty.
C22_ZeroLengthOptional ==
    (StrictCalled /\ CompleteNumbers(args.s) /\ EmptyOptional(args.s) # {}) =>
        /\ ret.err.kind = "ZeroLengthNumeric"
        /\ ret.err.part \in EmptyOptional(args.s)

(***************************************************************************)
(* Calls of ParseAny: every text of up to MaxAnyLen characters of digits,  *)
(* separators, a letter and a blank, and the texts of TestParseAny.        *)
(***************************************************************************)

MaxAnyLen == 4

AnyAlphabet == {"0", "1", ".", "-", "+", "a", " "}

\* validParseAnyMap, and a text without a digit.
AnyExamples ==
    {<<"g", "o", " ", "v", "e", "r", "s", "i", "o", "n", " ", "g", "o", "1", ".", "6", " ", "d", "a", "r", "w", "i", "n", "/", "a", "m", "d", "6", "4">>,
     <<"h", "e", "l", "l", "o", " ", "w", "o", "r", "l", "d", " ", "1", " ", "1", ".", "2", ".", "3">>,
     <<"h", "i", " ", "1", ".", "2", " ", "w", "o", "r", "l", "d", " ", "9">>,
     <<"n", "o", " ", "1", "-", "b", "e", "t", "a", "+", "m", "e", "t", "a">>,
     <<"y", "e", "s", " ", "1", ".", "2", ".", "3", "-", "b", "e", "t", "a", "+", "m", "e", "t", "a", "!", "!", "!">>,
     <<"y", "e", "s", " ", "1", ".", "2", "+", "m", "e", "t", "a", "!", "!", "!">>,
     <<"n", "o", " ", "v", "e", "r", "s", "i", "o", "n", " ", "h", "e", "r", "e">>}

AnyTexts == SeqsUpTo(AnyAlphabet, MaxAnyLen) \cup AnyExamples

\* ParseAny(s), then String() of the version returned.
CallParseAny ==
    /\ pc = "idle"
    /\ \E s \in AnyTexts :
           \E out \in {ParseAny(s)} :
               /\ pc' = "done"
               /\ op' = "ParseAny"
               /\ args' = [s |-> s]
               /\ ret' = [v |-> out.v, err |-> out.err, text |-> String(out.v)]

NextParseAny == CallParseAny \/ Reset

SpecParseAny == Init /\ [][NextParseAny]_vars

ParseAnyCalled == pc = "done" /\ op = "ParseAny"

\* C23: ParseAny returns an error exactly when the text holds no decimal
\* digit; with a digit it returns no error, whatever follows the digit.
C23_ParseAnyErrorIffNoDigit ==
    ParseAnyCalled => (ret.err # NilErr <=> ~HasDigit(args.s))

\* C23 witness: "1.x" after a blank, which Parse rejects, is no error.
C23_Witness ==
    /\ ParseAnyCalled
    /\ args.s = <<" ", "1", ".", "a">>
    /\ Parse(<<"1", ".", "a">>).err # NilErr
    /\ ret.err = NilErr

IsPrefix(p, t) == Len(p) <= Len(t) /\ SubSeq(t, 1, Len(p)) = p

\* The text from its first digit on.
FromFirstDigit(s) == SubSeq(s, IndexAnyDigit(s), Len(s))

\* C28: for a text that holds a digit, String() of the version ParseAny
\* returns is a prefix of the text taken from its first digit.
C28_ParseAnyPrefix ==
    (ParseAnyCalled /\ HasDigit(args.s)) => IsPrefix(ret.text, FromFirstDigit(args.s))

(***************************************************************************)
(* The semantic versioning 2.0.0 grammar, read off the text.               *)
(***************************************************************************)

\* A non-empty list of non-empty dot-separated identifiers; in a
\* prerelease the numeric ones have no leading zero.
ValidIdentifiers(t, isPre) ==
    /\ t # <<>>
    /\ \A k \in 1..Len(SplitDots(t, <<>>)) :
           /\ SplitDots(t, <<>>)[k] # <<>>
           /\ (isPre /\ AllDigits(SplitDots(t, <<>>)[k])) => NoLeadingZero(SplitDots(t, <<>>)[k])

ValidSemver(s) ==
    /\ CompleteNumbers(s)
    /\ PreOpened(s) => ValidIdentifiers(PreText(s), TRUE)
    /\ MetaOpened(s) => ValidIdentifiers(MetaText(s), FALSE)

\* C24: ParseExactSemver2 returns no error only for a text that is a valid
\* semantic versioning 2.0.0 version: three numbers without leading zeros,
\* then an optional prerelease and optional metadata that are not empty,
\* hold no empty identifier and, in the prerelease, no zero-led number.
C24_StrictIsSemver ==
    (StrictCalled /\ ret.err = NilErr) => ValidSemver(args.s)

(***************************************************************************)
(* Calls of Format and String.  A template is given as its sequence of     *)
(* tokens and literal dots: up to MaxTokens of them, and the named         *)
(* templates of the library.  The versions are built by NewVersion and     *)
(* NewMajorMinorPatch, or parsed from the texts of the README.             *)
(***************************************************************************)

MaxTokens == 3

TemplateTokens == {Major, <<"m">>, <<"p">>, PreTok, MetaTok, PreRaw, MetaRaw, <<".">>}

\* Major, MajorMinor, MajorMinorPatch, MMPPre, "M.m.p+?" and Complete.
NamedTemplates ==
    {<<Major>>, <<Major, <<".">>, <<"m">>>>, <<Major, <<".">>, <<"m">>, <<".">>, <<"p">>>>,
     <<Major, <<".">>, <<"m">>, <<".">>, <<"p">>, PreTok>>,
     <<Major, <<".">>, <<"m">>, <<".">>, <<"p">>, MetaTok>>,
     <<Major, <<".">>, <<"m">>, <<".">>, <<"p">>, PreTok, MetaTok>>}

Templates == SeqsUpTo(TemplateTokens, MaxTokens) \cup NamedTemplates

\* The template as the text handed to Format.
RECURSIVE Flatten(_)
Flatten(toks) == IF toks = <<>> THEN <<>> ELSE Head(toks) \o Flatten(Tail(toks))

FormatNums == {<<1, 2, 3>>, <<10, 0, 1>>}

\* Prereleases and metadata of valid characters, with letters that are
\* tokens and a trailing dash.
FormatPres == {<<>>, <<"a", "-">>, <<"p", ".", "M">>}

FormatMetas == {<<>>, <<"m", "-">>}

BuiltVersions ==
    {NewVersion(n[1], n[2], n[3], pre, meta) : n \in FormatNums, pre \in FormatPres, meta \in FormatMetas}
        \cup {NewMajorMinorPatch(n[1], n[2], n[3]) : n \in FormatNums}

FormatExample == <<"1", ".", "2", ".", "3", "-", "b", "e", "t", "a", ".", "1", "+", "a", "b", "c", "-", "d", "e", "f", ".", "2">>

FormatParseTexts ==
    {FormatExample,
     <<"1">>,
     <<"1", ".", "0">>,
     <<"1", ".", "0", ".", "0">>,
     <<"1", ".", "0", ".", "0", "-", "b", "e", "t", "a">>,
     <<"1", ".", "0", ".", "0", "-", "b", "e", "t", "a", "+", "a", "b", "c">>,
     <<"1", ".", "0", ".", "0", "+", "a", "b", "c">>}

\* v.Format(format) and v.String() of a version built by a constructor.
CallFormatBuilt ==
    /\ pc = "idle"
    /\ \E v \in BuiltVersions, toks \in Templates :
           \E out \in {Format(v, Flatten(toks))} :
               /\ pc' = "done"
               /\ op' = "Format"
               /\ args' = [v |-> v, s |-> <<>>, toks |-> toks, format |-> Flatten(toks)]
               /\ ret' = [text |-> out, str |-> String(v)]

\* The same of a version parsed from a text.
CallFormatParsed ==
    /\ pc = "idle"
    /\ \E s \in FormatParseTexts, toks \in Templates :
           \E v \in {Parse(s).v} :
               /\ pc' = "done"
               /\ op' = "Format"
               /\ args' = [v |-> v, s |-> s, toks |-> toks, format |-> Flatten(toks)]
               /\ ret' = [text |-> Format(v, Flatten(toks)), str |-> String(v)]

NextFormat == CallFormatBuilt \/ CallFormatParsed \/ Reset

SpecFormat == Init /\ [][NextFormat]_vars

FormatCalled == pc = "done" /\ op = "Format"

\* What one token of a template stands for.
RenderToken(v, tok) ==
    CASE tok = Major -> Itoa(v.Major)
      [] tok = <<"m">> -> Itoa(v.Minor)
      [] tok = <<"p">> -> Itoa(v.Patch)
      [] tok = PreTok -> IF v.Pre = <<>> THEN <<>> ELSE <<"-">> \o v.Pre
      [] tok = MetaTok -> IF v.Meta = <<>> THEN <<>> ELSE <<"+">> \o v.Meta
      [] tok = PreRaw -> v.Pre
      [] tok = MetaRaw -> v.Meta
      [] OTHER -> tok

RECURSIVE Render(_, _)
Render(v, toks) ==
    IF toks = <<>> THEN <<>> ELSE RenderToken(v, Head(toks)) \o Render(v, Tail(toks))

\* C25: Format replaces every token of a non-empty template by what it
\* stands for and keeps the rest: the numbers in decimal, "-?" and "+?" as
\* the delimiter and the field or nothing when the field is empty, "-!" and
\* "+!" as the bare field; and String() of a version built by NewVersion or
\* NewMajorMinorPatch is major.minor.patch and the non-empty optional parts.
C25_FormatTokens ==
    FormatCalled =>
        /\ args.toks # <<>> => ret.text = Render(args.v, args.toks)
        /\ args.s = <<>> =>
               ret.str = Itoa(args.v.Major) \o <<".">> \o Itoa(args.v.Minor) \o <<".">> \o Itoa(args.v.Patch)
                           \o (IF args.v.Pre = <<>> THEN <<>> ELSE <<"-">> \o args.v.Pre)
                           \o (IF args.v.Meta = <<>> THEN <<>> ELSE <<"+">> \o args.v.Meta)

\* C25 witness: the README's Format("M.m.p+?") of 1.2.3-beta.1+abc-def.2.
C25_Witness ==
    /\ FormatCalled
    /\ args.s = FormatExample
    /\ args.format = <<"M", ".", "m", ".", "p", "+", "?">>
    /\ ret.text = <<"1", ".", "2", ".", "3", "+", "a", "b", "c", "-", "d", "e", "f", ".", "2">>

\* C26: Format with the empty template prints what String() prints.
C26_EmptyTemplateIsString ==
    (FormatCalled /\ args.format = <<>>) => ret.text = ret.str

\* The complete rendering: the three numbers and the non-empty optional
\* parts.
CompleteText(v) ==
    Itoa(v.Major) \o <<".">> \o Itoa(v.Minor) \o <<".">> \o Itoa(v.Patch)
        \o (IF v.Pre = <<>> THEN <<>> ELSE <<"-">> \o v.Pre)
        \o (IF v.Meta = <<>> THEN <<>> ELSE <<"+">> \o v.Meta)

\* The recorded shape is empty or holds the three numbers.
ShapeIsFull(v) == v.DefaultFormat = <<>> \/ IsPrefix(MajorMinorPatch, v.DefaultFormat)

\* C26, amended: Format with the empty template prints the complete
\* rendering "M.m.p-?+?"; that is what String() prints exactly when the
\* recorded shape is empty or holds all three numbers.
C26_EmptyTemplateIsComplete ==
    (FormatCalled /\ args.format = <<>>) =>
        /\ ret.text = CompleteText(args.v)
        /\ ret.text = ret.str <=> ShapeIsFull(args.v)

\* C26 witness: for the version parsed from "1" the empty template prints
\* "1.0.0" and String() prints "1".
C26_Witness ==
    /\ FormatCalled
    /\ args.s = <<"1">>
    /\ args.format = <<>>
    /\ ret.text = <<"1", ".", "0", ".", "0">>
    /\ ret.str = <<"1">>

(***************************************************************************)
(* The scan of parse, one character a step.  ret holds the position of the *)
(* next character (1-based), the cursor and the buffers; a step that       *)
(* returns, and the end of the text, hand them to finalise.                *)
(***************************************************************************)

ScanStart ==
    /\ pc = "idle"
    /\ \E s \in RawParseTexts :
           /\ pc' = "scanning"
           /\ op' = "parse"
           /\ args' = [s |-> s]
           /\ ret' = [k |-> 1, st |-> ScanInit, err |-> NilErr]

\* One pass of the loop body.
ScanStep ==
    /\ pc = "scanning"
    /\ ret.k <= Len(args.s)
    /\ \E c \in {args.s[ret.k]}, st1 \in {MarkParsed(ret.st)} :
         \E cm \in {IF c \in {".", "-", "+"} THEN changeMode(st1.m, c, ret.k - 1)
                    ELSE [changed |-> FALSE, err |-> NilErr, m |-> st1.m]} :
           \E e \in {IF cm.err # NilErr THEN cm.err
                     ELSE IF cm.changed THEN NilErr
                     ELSE IF st1.m \in {modeMajor, modeMinor, modePatch}
                     THEN (IF c \in digits THEN NilErr ELSE UnexpectedCharacter(c, ret.k - 1))
                     ELSE (IF c \in validPreAndMetaChars THEN NilErr
                           ELSE UnexpectedCharacter(c, ret.k - 1))} :
               IF e # NilErr
               THEN /\ pc' = "done"
                    /\ ret' = [k |-> ret.k, st |-> st1, err |-> e, out |-> finalise(st1, <<e>>)]
               ELSE /\ pc' = "scanning"
                    /\ ret' = [k |-> ret.k + 1,
                               st |-> IF cm.changed THEN [st1 EXCEPT !.m = cm.m] ELSE WriteRune(st1, c),
                               err |-> NilErr]
    /\ UNCHANGED <<op, args>>

\* The end of the text.
ScanEnd ==
    /\ pc = "scanning"
    /\ ret.k > Len(args.s)
    /\ pc' = "done"
    /\ ret' = [k |-> ret.k, st |-> ret.st, err |-> NilErr,
               out |-> IF ~ret.st.parsedMinor THEN finalise(ret.st, <<VersionIncomplete("minor")>>)
                       ELSE IF ~ret.st.parsedPatch THEN finalise(ret.st, <<VersionIncomplete("patch")>>)
                       ELSE finalise(ret.st, <<NilErr>>)]
    /\ UNCHANGED <<op, args>>

NextScan == ScanStart \/ ScanStep \/ ScanEnd \/ Reset

SpecScan == Init /\ [][NextScan]_vars

\* The scan returns what parse returns.
ScanIsParse == (pc = "done" /\ op = "parse") => ret.out = parse(args.s)

Buffers(st) == <<st.major, st.minor, st.patch, st.pre, st.meta>>

\* The step reads character c with the cursor at m.
Reads(c, ms) == pc = "scanning" /\ ret.k <= Len(args.s) /\ args.s[ret.k] = c /\ ret.st.m \in ms

\* The step moves the cursor to m and stores nothing.
MovesTo(m) == pc' = "scanning" /\ ret'.st.m = m /\ Buffers(ret'.st) = Buffers(ret.st)

\* The step stops the scan with the unexpected-character error.
Refuses(c) ==
    /\ pc' = "done"
    /\ ret'.err.kind = "UnexpectedCharacter" /\ ret'.err.char = c /\ ret'.err.pos = ret.k - 1

\* C27: every step of the scan obeys the grammar's transitions: "." in
\* major or minor moves the cursor to the next numeric field and is not
\* stored, "." in patch is refused; "-" in a numeric field moves the cursor
\* to the prerelease and is not stored, "-" in prerelease or metadata is
\* stored there; "+" outside the metadata moves the cursor to the metadata
\* and is not stored, "+" in the metadata is refused; and the cursor never
\* moves back.
C27_CursorTransitions ==
    [][/\ Reads(".", {modeMajor, modeMinor}) => MovesTo(ret.st.m + 1)
       /\ Reads(".", {modePatch}) => Refuses(".")
       /\ Reads("-", {modeMajor, modeMinor, modePatch}) => MovesTo(modePre)
       /\ Reads("-", {modePre}) =>
              /\ pc' = "scanning" /\ ret'.st.m = modePre
              /\ Buffers(ret'.st) = [Buffers(ret.st) EXCEPT ![4] = Append(@, "-")]
       /\ Reads("-", {modeMeta}) =>
              /\ pc' = "scanning" /\ ret'.st.m = modeMeta
              /\ Buffers(ret'.st) = [Buffers(ret.st) EXCEPT ![5] = Append(@, "-")]
       /\ Reads("+", {modeMajor, modeMinor, modePatch, modePre}) => MovesTo(modeMeta)
       /\ Reads("+", {modeMeta}) => Refuses("+")
       /\ (pc = "scanning" /\ pc' \in {"scanning", "done"}) => ret'.st.m >= ret.st.m]_vars

\* C27 witness: the scan of "1--+" has stored the second dash in the
\* prerelease and stands in the metadata.
C27_Witness ==
    /\ pc = "scanning"
    /\ args.s = <<"1", "-", "-", "+">>
    /\ ret.k = 5
    /\ ret.st.m = modeMeta
    /\ ret.st.pre = <<"-">>

(***************************************************************************)
(* The two modes compared, and printing followed by parsing.               *)
(***************************************************************************)

\* C29: a text ParseExactSemver2 accepts is accepted by Parse with the
\* same version, recorded shape included; and a text Parse rejects is
\* rejected by ParseExactSemver2.
C29_StrictImpliesPermissive ==
    /\ (StrictCalled /\ ret.err = NilErr) =>
           \E p \in {Parse(args.s)} : p.err = NilErr /\ p.v = ret.v
    /\ (ParseCalled /\ ret.err # NilErr) =>
           \E e \in {ParseExactSemver2(args.s)} : e.err # NilErr

\* C29 witness: both halves need a call each; this is the strict one, of
\* a text with prerelease and metadata.
C29_Witness ==
    /\ StrictCalled
    /\ args.s = <<"1", ".", "1", "0", ".", "0", "-", "b", ".", "1", "+", "m", ".", "p">>
    /\ ret.err = NilErr
    /\ Parse(args.s).v = ret.v

\* C30: for a text s that Parse accepts and t the String() of its version,
\* Parse accepts t, reads the same numbers, prerelease and metadata from
\* it, and prints it as t again.
C30_PrintParseStable ==
    (ParseCalled /\ ret.err = NilErr) =>
        \E p \in {Parse(ret.text)} :
            /\ p.err = NilErr
            /\ p.v.Major = ret.v.Major /\ p.v.Minor = ret.v.Minor /\ p.v.Patch = ret.v.Patch
            /\ p.v.Pre = ret.v.Pre /\ p.v.Meta = ret.v.Meta
            /\ String(p.v) = ret.text

\* C30 witness: "1-+a" is printed as "1+a", the empty prerelease dropped,
\* and "1+a" is read back as the same version.
C30_Witness ==
    /\ ParseCalled
    /\ args.s = <<"1", "-", "+", "a">>
    /\ ret.err = NilErr
    /\ ret.text = <<"1", "+", "a">>
    /\ Parse(ret.text).v.Meta = <<"a">>

=============================================================================
